---- MODULE Spec2Model ----
(***************************************************************************)
(* Model of the ret_gain effect chain: the waveshaper (Distortion), the    *)
(* chaotic-iteration stage (FractalMagic), the chaotic oscillator          *)
(* (ChaosAttractor), the gain stage, the orchestrator                      *)
(* (RetardedGain::process) and the peak meter.                             *)
(*                                                                         *)
(* Numbers.  An f32 is modelled as a fixed-point integer counting units of *)
(* 1/S (S = 10^4), so 0.285 is 2850 and 0.9995 is 9995.  Results are       *)
(* truncated toward zero.  Magnitudes above FMAX are not representable and *)
(* become PInf / NInf, exactly as an f32 operation whose result exceeds    *)
(* f32::MAX becomes +-inf; inf - inf and 0 * inf are NaN, and every        *)
(* comparison with NaN is false.  FMAX (10^5) is far smaller than          *)
(* f32::MAX, so the model saturates earlier than the hardware does, and a   *)
(* product smaller than 1/S is truncated to zero; a trace that ends in inf *)
(* or NaN here is relied on only once the same failure was reproduced in   *)
(* IEEE single precision.                                                  *)
(* A sample rate is an integer count of tenths of a hertz (HZ = 10), so    *)
(* that 0.1 Hz and 0.5 Hz, positive rates below 1 Hz, are rates of the     *)
(* model.  A call that panics returns PANIC.                               *)
(***************************************************************************)
EXTENDS Integers, Sequences, FiniteSets, TLC

S == 10000
FMAX == 1000000000
PInf == 2000000000
NInf == 0 - 2000000000
NaN == 2000010000

\* one hertz, a sample rate being a count of tenths of a hertz
HZ == 10

\* mutant: the cast of a sample rate gives 0
AsUsize_zero(sample_rate) == 0

\* `sample_rate as usize`, for a positive sample rate
AsUsize(sample_rate) == sample_rate \div HZ

\* what a call that panicked returns
PANIC == 2000020000

\* D(n, d) is the decimal literal n/d, e.g. D(285, 1000) = 0.285
D(n, d) == (n * S) \div d

IsNaN(a) == a = NaN
IsInf(a) == a = PInf \/ a = NInf
IsFinite(a) == ~IsNaN(a) /\ ~IsInf(a)

IAbs(n) == IF n < 0 THEN 0 - n ELSE n
Sign(n) == IF n < 0 THEN 0 - 1 ELSE IF n > 0 THEN 1 ELSE 0

\* round a magnitude that left the representable range to an infinity
Sat(sgn, mag) == IF mag > FMAX THEN (IF sgn < 0 THEN NInf ELSE PInf) ELSE sgn * mag

FNeg(a) == IF IsNaN(a) THEN NaN ELSE 0 - a

FAbs(a) == IF IsNaN(a) THEN NaN ELSE IAbs(a)

FAdd(a, b) ==
    IF IsNaN(a) \/ IsNaN(b) THEN NaN
    ELSE IF IsInf(a) /\ IsInf(b) THEN (IF a = b THEN a ELSE NaN)
    ELSE IF IsInf(a) THEN a
    ELSE IF IsInf(b) THEN b
    ELSE IF a > 0 /\ b > FMAX - a THEN PInf
    ELSE IF a < 0 /\ b < (0 - FMAX) - a THEN NInf
    ELSE a + b

FSub(a, b) == FAdd(a, FNeg(b))

\* floor(|a| * |b| / S) for finite a, b without leaving 32 bits
MulMag(a, b) ==
    LET qa == IAbs(a) \div S
        ra == IAbs(a) % S
        qb == IAbs(b) \div S
        rb == IAbs(b) % S
    IN  IF qa > 0 /\ qb > (FMAX \div S) \div qa
        THEN FMAX + 1
        ELSE qa * qb * S + qa * rb + ra * qb + (ra * rb) \div S

FMul(a, b) ==
    IF IsNaN(a) \/ IsNaN(b) THEN NaN
    ELSE IF IsInf(a) \/ IsInf(b)
         THEN (IF a = 0 \/ b = 0 THEN NaN
               ELSE IF Sign(a) * Sign(b) < 0 THEN NInf ELSE PInf)
    ELSE Sat(Sign(a) * Sign(b), MulMag(a, b))

\* floor(n * S / d) for naturals n, d with 0 < d, without leaving 32 bits
ScaleDiv(n, d) ==
    LET q1 == n \div d
        r1 == n % d
        q2 == (r1 * 100) \div d
        r2 == (r1 * 100) % d
    IN  IF q1 > FMAX \div S THEN FMAX + 1
        ELSE q1 * S + q2 * 100 + (r2 * 100) \div d

\* a / b for a finite non-zero divisor b
FDiv(a, b) ==
    IF IsNaN(a) THEN NaN
    ELSE IF IsInf(a) THEN (IF Sign(a) * Sign(b) < 0 THEN NInf ELSE PInf)
    ELSE Sat(Sign(a) * Sign(b), ScaleDiv(IAbs(a), IAbs(b)))

FGt(a, b) == ~IsNaN(a) /\ ~IsNaN(b) /\ a > b
FLt(a, b) == ~IsNaN(a) /\ ~IsNaN(b) /\ a < b
FLe(a, b) == ~IsNaN(a) /\ ~IsNaN(b) /\ a <= b

\* f32::max: the other operand when one is NaN
FMax(a, b) == IF IsNaN(a) THEN b ELSE IF IsNaN(b) THEN a ELSE IF a > b THEN a ELSE b

\* f32::clamp: NaN stays NaN
FClamp(a, lo, hi) == IF IsNaN(a) THEN NaN ELSE IF a < lo THEN lo ELSE IF a > hi THEN hi ELSE a

PI == D(31416, 10000)
TWO_PI == 2 * PI

\* sine of an angle in [0, PI] (Bhaskara's rational approximation)
SinHalf(x) ==
    LET p == (x * (PI - x)) \div S
    IN  4 * ((4 * p * S) \div (5 * ((PI * PI) \div S) - 4 * p))

\* f32::sin: NaN for NaN and for an infinite argument
FSin(a) ==
    IF ~IsFinite(a) THEN NaN
    ELSE LET r == IAbs(a) % TWO_PI
             v == IF r <= PI THEN SinHalf(r) ELSE 0 - SinHalf(r - PI)
         IN  IF a < 0 THEN 0 - v ELSE v

\* f32::cos
FCos(a) == IF ~IsFinite(a) THEN NaN ELSE FSin((IAbs(a) % TWO_PI) + PI \div 2)

\* f32::tanh: odd, monotone, within [-1, 1], +-1 at +-inf, NaN for NaN
\* (Pade approximant x(27 + x^2)/(27 + 9x^2) on |x| < 3, saturated beyond)
FTanh(a) ==
    IF IsNaN(a) THEN NaN
    ELSE IF a >= 3 * S THEN S
    ELSE IF a <= 0 - 3 * S THEN 0 - S
    ELSE LET x2 == (a * a) \div S
             ratio == (((27 * S + x2) \div 10) * S) \div ((27 * S + 9 * x2) \div 10)
         IN  Sign(a) * ((IAbs(a) * ratio) \div S)


\* integer power by squaring
RECURSIVE IPow(_, _)
IPow(b, n) ==
    IF n = 0 THEN S
    ELSE LET h == IPow(b, n \div 2)
             h2 == FMul(h, h)
         IN  IF n % 2 = 0 THEN h2 ELSE FMul(h2, b)

\* f32::powf for a base in (0, 1] and an exponent e >= 0: the whole part of
\* the exponent by repeated multiplication, the fractional part by the
\* chord between b^0 and b^1
FPowf(b, e) ==
    LET whole == e \div S
        frac == e % S
    IN  FMul(IPow(b, whole), S - ((S - b) * frac) \div S)

(***************************************************************************)
(* Waveshaper stage, distortion.rs                                         *)
(***************************************************************************)
Distortion_new(drive) == [drive |-> drive]

Distortion_process(self, sample) == FTanh(FMul(sample, self.drive))

(***************************************************************************)
(* Gain stage                                                              *)
(***************************************************************************)
GainProcessor_process(sample, gain) == FMul(sample, gain)

(***************************************************************************)
(* Chaotic-iteration stage, fractal.rs                                     *)
(***************************************************************************)
DEFAULT_SAMPLE_RATE == 44100 * HZ

FractalMagic_new(magic_amount) ==
    [magic_amount |-> magic_amount,
     z_real |-> 0,
     z_imag |-> 0,
     sample_rate |-> DEFAULT_SAMPLE_RATE,
     sample_counter |-> 0,
     release_smoothing |-> D(9995, 10000),
     prev_output |-> 0]

FractalMagic_set_sample_rate(self, sample_rate) ==
    [self EXCEPT !.sample_rate = sample_rate,
                 !.release_smoothing =
                     FPowf(D(9995, 10000), ScaleDiv(DEFAULT_SAMPLE_RATE, sample_rate))]

\* mutant: the smoothing memory survives the reset
FractalMagic_reset_keeps_output(self) ==
    [self EXCEPT !.z_real = 0, !.z_imag = 0, !.sample_counter = 0]

FractalMagic_reset(self) ==
    [self EXCEPT !.z_real = 0, !.z_imag = 0, !.sample_counter = 0, !.prev_output = 0]

wave_fold(input, fold_amount) ==
    IF FLe(fold_amount, 0) THEN input
    ELSE LET threshold == FDiv(S, fold_amount)
         IN  IF FGt(input, threshold) THEN FSub(FMul(2 * S, threshold), input)
             ELSE IF FLt(input, FNeg(threshold))
                  THEN FSub(FMul(0 - 2 * S, threshold), input)
             ELSE input

soft_clip(input) == FTanh(input)

\* the rescaling of z once a component left [-2, 2]
FractalRescale(zr, zi) ==
    IF FGt(FAbs(zr), 2 * S) \/ FGt(FAbs(zi), 2 * S)
    THEN [z_real |-> FMul(zr, D(5, 10)), z_imag |-> FMul(zi, D(5, 10))]
    ELSE [z_real |-> zr, z_imag |-> zi]

\* the recurrence z <- z^2 + c + sample * 0.1 and the rescaling that follows it
FractalUpdateZ(self, sample, fractal_strength) ==
    LET c_real == FAdd(D(285, 1000), FMul(D(1, 100), FSin(FMul(sample, fractal_strength))))
        c_imag == FAdd(D(1, 100), FMul(D(1, 100), FCos(FMul(sample, fractal_strength))))
        temp_real == self.z_real
        temp_imag == self.z_imag
    IN  FractalRescale(
            FAdd(FAdd(FSub(FMul(temp_real, temp_real), FMul(temp_imag, temp_imag)), c_real),
                 FMul(sample, D(1, 10))),
            FAdd(FMul(FMul(2 * S, temp_real), temp_imag), c_imag))

\* the release smoothing and the limiter
FractalSmooth(self, with_feedback) ==
    soft_clip(IF FGt(FAbs(with_feedback), FAbs(self.prev_output))
              THEN with_feedback
              ELSE FAdd(FMul(with_feedback, FSub(S, self.release_smoothing)),
                        FMul(self.prev_output, self.release_smoothing)))

\* the stores that end process, and its return value
FractalStore(self, z, limited) ==
    IF AsUsize(self.sample_rate) * 60 = 0
    THEN \* the remainder by zero panics, z_real and z_imag being stored already
         [self |-> [self EXCEPT !.z_real = z.z_real, !.z_imag = z.z_imag],
          out |-> PANIC]
    ELSE [self |-> [self EXCEPT !.z_real = z.z_real,
                                !.z_imag = z.z_imag,
                                !.sample_counter =
                                    (self.sample_counter + 1)
                                        % (AsUsize(self.sample_rate) * 60),
                                !.prev_output = limited],
          out |-> limited]

\* process from the LFO on, z being the updated iterate
FractalBlend(self, sample, fractal_strength, z) ==
    LET fold_strength == FMul(self.magic_amount, D(25, 10))
        feedback_amount == FMul(self.magic_amount, D(4, 10))
        lfo_freq == D(1, 10)
        lfo_phase == FMul(FMul(FMul(ScaleDiv(self.sample_counter * HZ, self.sample_rate),
                                    lfo_freq), 2 * S), PI)
        lfo_value == FMul(FSin(lfo_phase), D(1, 10))
        folded == wave_fold(FAdd(sample, lfo_value), fold_strength)
        result == FAdd(FMul(sample, FSub(S, self.magic_amount)),
                       FMul(FAdd(FMul(FMul(z.z_real, D(2, 10)), fractal_strength), folded),
                            self.magic_amount))
        with_feedback == FAdd(result, FMul(feedback_amount, FTanh(z.z_real)))
    IN  FractalStore(self, z, FractalSmooth(self, with_feedback))

\* process past its early exit
FractalActive(self, sample) ==
    LET fractal_strength == FMul(self.magic_amount, 2 * S)
    IN  FractalBlend(self, sample, fractal_strength,
                     FractalUpdateZ(self, sample, fractal_strength))

\* mutant: the early exit compares with < instead of <=
FractalMagic_process_strict(self, sample) ==
    IF FLt(self.magic_amount, D(1, 1000))
    THEN [self |-> self, out |-> sample]
    ELSE FractalActive(self, sample)

FractalMagic_process(self, sample) ==
    IF FLe(self.magic_amount, D(1, 1000))
    THEN [self |-> self, out |-> sample]
    ELSE FractalActive(self, sample)

(***************************************************************************)
(* Chaotic-oscillator stage, chaos.rs                                      *)
(***************************************************************************)
ChaosAttractor_new(chaos_amount) ==
    [chaos_amount |-> chaos_amount,
     x |-> D(1, 10),
     y |-> D(1, 10),
     z |-> D(1, 10),
     sigma |-> D(10, 1),
     rho |-> D(28, 1),
     beta |-> FDiv(D(8, 1), D(3, 1)),
     sample_rate |-> DEFAULT_SAMPLE_RATE,
     dt |-> D(1, 1000),
     phase |-> 0,
     evolution_counter |-> 0]

ChaosAttractor_set_sample_rate(self, sample_rate) ==
    [self EXCEPT !.sample_rate = sample_rate,
                 !.dt = FMul(D(5, 1000), ScaleDiv(DEFAULT_SAMPLE_RATE, sample_rate))]

ChaosAttractor_reset(self) ==
    [self EXCEPT !.x = D(1, 10), !.y = D(1, 10), !.z = D(1, 10),
                 !.phase = 0, !.evolution_counter = 0]

\* the derivatives and the Euler step of update_lorenz
LorenzEuler(self, x_scaled, y_scaled, z_scaled, rho_mod) ==
    LET dx == FMul(self.sigma, FSub(y_scaled, x_scaled))
        dy == FSub(FMul(x_scaled, FSub(rho_mod, z_scaled)), y_scaled)
        dz == FSub(FMul(x_scaled, y_scaled), FMul(self.beta, z_scaled))
    IN  [self EXCEPT !.x = FAdd(self.x, FMul(dx, self.dt)),
                     !.y = FAdd(self.y, FMul(dy, self.dt)),
                     !.z = FAdd(self.z, FMul(dz, self.dt))]

\* update_lorenz before the clamp
LorenzStep(self, input_influence) ==
    LET scale_factor == D(1, 10)
    IN  LorenzEuler(self,
                    FMul(self.x, scale_factor),
                    FMul(self.y, scale_factor),
                    FMul(self.z, scale_factor),
                    FAdd(self.rho, FMul(FMul(input_influence, D(5, 1)), self.chaos_amount)))

\* the clamp that ends update_lorenz
LorenzClamp(self) ==
    [self EXCEPT !.x = FClamp(self.x, D(-100, 1), D(100, 1)),
                 !.y = FClamp(self.y, D(-100, 1), D(100, 1)),
                 !.z = FClamp(self.z, D(-100, 1), D(100, 1))]

update_lorenz(self, input_influence) == LorenzClamp(LorenzStep(self, input_influence))

get_lorenz_output(self) ==
    LET x_norm == FTanh(FDiv(self.x, D(30, 1)))
        y_norm == FTanh(FDiv(self.y, D(30, 1)))
        z_norm == FTanh(FDiv(self.z, D(50, 1)))
    IN  FAdd(FAdd(FMul(D(5, 10), x_norm), FMul(D(3, 10), y_norm)), FMul(D(2, 10), z_norm))

EVOLVE_PERIOD == 4000

\* evolve_parameters up to its counter: the slow LFOs on sigma, rho and beta
evolve_lfo(self) ==
    LET time == ScaleDiv(self.evolution_counter * HZ, self.sample_rate * 120)
        sigma_mod == FMul(D(5, 10), FSin(FMul(FMul(time, D(1, 10)), PI)))
        rho_mod == FMul(D(5, 10), FSin(FMul(FMul(time, D(7, 100)), PI)))
        beta_mod == FMul(D(3, 10), FSin(FMul(FMul(time, D(5, 100)), PI)))
        evolved ==
            IF self.evolution_counter % EVOLVE_PERIOD = 0
            THEN [self EXCEPT
                    !.sigma = FAdd(D(10, 1), FMul(sigma_mod, self.chaos_amount)),
                    !.rho = FAdd(D(28, 1), FMul(FMul(rho_mod, D(5, 1)), self.chaos_amount)),
                    !.beta = FAdd(FDiv(D(8, 1), D(3, 1)), FMul(beta_mod, self.chaos_amount))]
            ELSE self
    IN  evolved

\* mutant: the counter advances by two with every call
evolve_parameters_by_two(self) ==
    [evolve_lfo(self) EXCEPT !.evolution_counter =
                                 (self.evolution_counter + 2)
                                     % (AsUsize(self.sample_rate) * 600)]

\* evolve_parameters where its remainder has a non-zero divisor
evolve_parameters(self) ==
    [evolve_lfo(self) EXCEPT !.evolution_counter =
                                 (self.evolution_counter + 1)
                                     % (AsUsize(self.sample_rate) * 600)]

\* the wrap of the phase accumulator
WrapPhase(self, p) == [self EXCEPT !.phase = IF FGt(p, S) THEN FSub(p, S) ELSE p]

\* the phase accumulator of process
AdvancePhase(self) ==
    WrapPhase(self, FAdd(self.phase, FMul(D(1, 1000), ScaleDiv(440 * HZ, self.sample_rate))))

\* the three modulations, their mix and the limiter
ChaosMix(self, sample, chaos_signal) ==
    LET am == FMul(sample, FAdd(S, FMul(chaos_signal, self.chaos_amount)))
        phase_mod == FMul(FMul(FAdd(self.phase,
                                    FMul(FMul(chaos_signal, D(1, 100)), self.chaos_amount)),
                               2 * S), PI)
        fm == FMul(FMul(sample, FCos(phase_mod)), D(5, 10))
        shaped_chaos == FMul(FMul(FMul(FMul(chaos_signal, chaos_signal), chaos_signal),
                                  self.chaos_amount), D(3, 10))
        result == FAdd(FMul(sample, FSub(S, self.chaos_amount)),
                       FMul(FAdd(FAdd(FMul(am, D(5, 10)), FMul(fm, D(3, 10))), shaped_chaos),
                            self.chaos_amount))
    IN  [self |-> self, out |-> soft_clip(result)]

\* process once the oscillator and its parameters have been advanced
ChaosOutput(self, sample) == ChaosMix(self, sample, get_lorenz_output(self))

\* process from the call of evolve_parameters on, whose remainder by zero
\* panics once sigma, rho and beta are stored
ChaosEvolve(self, sample) ==
    IF AsUsize(self.sample_rate) * 600 = 0
    THEN [self |-> evolve_lfo(self), out |-> PANIC]
    ELSE ChaosOutput(evolve_parameters(self), sample)

\* process past its early exit
ChaosActive(self, sample) ==
    ChaosEvolve(update_lorenz(AdvancePhase(self), sample), sample)

\* mutant: the early exit is taken after the phase and the counter advanced
ChaosAttractor_process_late(self, sample) ==
    IF FLe(self.chaos_amount, D(1, 1000))
    THEN [self |-> [AdvancePhase(self) EXCEPT
                       !.evolution_counter = self.evolution_counter + 1],
          out |-> sample]
    ELSE ChaosActive(self, sample)

ChaosAttractor_process(self, sample) ==
    IF FLe(self.chaos_amount, D(1, 1000))
    THEN [self |-> self, out |-> sample]
    ELSE ChaosActive(self, sample)

(***************************************************************************)
(* State                                                                   *)
(***************************************************************************)
VARIABLES
    peak_meter,               \* RetardedGain.peak_meter (the shared AtomicF32)
    peak_meter_decay_weight,  \* RetardedGain.peak_meter_decay_weight
    distortion,               \* RetardedGain.distortion
    fractal_magic,            \* RetardedGain.fractal_magic, or the stage under test
    chaos_attractor,          \* RetardedGain.chaos_attractor, or the stage under test
    pc,                       \* where the host is: "created", "idle", "frame"
    host_rate,                \* the sample rate the host passed last, in
                              \* initialize's buffer_config or in the transport
                              \* of the block being processed; 0 before
    max_peak,                 \* local max_peak of process
    current_meter,            \* local current_meter of process where the load and
                              \* the store are separate steps: <<v>>, <<>> outside
    new_meter,                \* local new_meter of process, as computed last
    stores,                   \* stores into peak_meter made by the current,
                              \* else the last, call of process
    loaded,                   \* <<v>> when the last step was the editor's load
                              \* and returned v, <<>> otherwise
    framesLeft,               \* frames of the current block not yet processed
    channels,                 \* channel count of the current block
    frame,                    \* the frame processed last: its parameters, inputs,
                              \* the value of *sample after each stage, its outputs
    run,                      \* <<>> before the first block, then <<P, N, jumped>>:
                              \* the last N blocks were silent, the block before
                              \* them had peak P and jumped the meter to P or not
    stageOp,                  \* last call made on a stage driven on its own
    stageIn,                  \* its sample argument
    stageOut,                 \* its return value
    calls,                    \* process calls made on a stage in one long run
    since                     \* non-bypassed calls made since sigma, rho and beta
                              \* were recomputed last, that call included; 0
                              \* after construction and after reset

vars == <<peak_meter, peak_meter_decay_weight, distortion, fractal_magic, chaos_attractor,
          pc, host_rate, max_peak, current_meter, new_meter, stores, loaded,
          framesLeft, channels, frame, run, stageOp, stageIn, stageOut,
                   calls, since>>

pluginVars == <<peak_meter, peak_meter_decay_weight, distortion,
                pc, host_rate, max_peak, current_meter, new_meter, stores, loaded,
                framesLeft, channels, frame, run, calls, since>>

\* nih_plug::util::MINUS_INFINITY_DB
MINUS_INFINITY_DB == D(-100, 1)

NoFrame == [gain |-> 0, drive |-> 0, magic |-> 0, chaos |-> 0,
            input |-> <<>>, stages |-> <<>>, output |-> <<>>]

(***************************************************************************)
(* Bounds and input sets                                                   *)
(***************************************************************************)
MaxFractalRun == 10
MaxChaosRun == 5
MaxFrames == 2
MaxSilent == 3
MaxCalls == 4001

StageAmounts == {0, D(1, 1000), D(3, 10), S}
FractalSamples == {D(1, 1), D(10, 1)}
\* 1.0, 10.0 and the finite sample of largest magnitude
ChaosSamples == {D(1, 1), D(10, 1), 0 - FMAX}
\* 0.1 Hz, 0.5 Hz, 1 Hz and 22050 Hz
StageRates == {HZ \div 10, HZ \div 2, HZ, 22050 * HZ}

(***************************************************************************)
(* A chaotic-iteration stage driven on its own through its public methods, *)
(* until a call panics                                                     *)
(***************************************************************************)
InitPlugin ==
    /\ peak_meter = MINUS_INFINITY_DB
    /\ peak_meter_decay_weight = S
    /\ distortion = Distortion_new(S)
    /\ pc = "created"
    /\ host_rate = 0
    /\ max_peak = 0
    /\ current_meter = <<>>
    /\ new_meter = 0
    /\ stores = 0
    /\ loaded = <<>>
    /\ framesLeft = 0
    /\ channels = 0
    /\ frame = NoFrame
    /\ run = <<>>
    /\ calls = 0
    /\ since = 0

InitFractal ==
    /\ InitPlugin
    /\ \E a \in StageAmounts : fractal_magic = FractalMagic_new(a)
    /\ chaos_attractor = ChaosAttractor_new(0)
    /\ stageOp = "new"
    /\ stageIn = 0
    /\ stageOut = 0

FmSetSampleRate ==
    \E sr \in StageRates :
        /\ stageOut # PANIC
        /\ fractal_magic' = FractalMagic_set_sample_rate(fractal_magic, sr)
        /\ stageOp' = "set_sample_rate"
        /\ UNCHANGED <<stageIn, stageOut, chaos_attractor, pluginVars>>

FmReset ==
    /\ stageOut # PANIC
    /\ fractal_magic' = FractalMagic_reset(fractal_magic)
    /\ stageOp' = "reset"
    /\ UNCHANGED <<stageIn, stageOut, chaos_attractor, pluginVars>>

FmProcess ==
    \E s \in FractalSamples :
        /\ stageOut # PANIC
        /\ fractal_magic.sample_counter < MaxFractalRun
        /\ \E r \in {FractalMagic_process(fractal_magic, s)} :
               /\ fractal_magic' = r.self
               /\ stageOut' = r.out
        /\ stageIn' = s
        /\ stageOp' = "process"
        /\ UNCHANGED <<chaos_attractor, pluginVars>>

NextFractal == FmSetSampleRate \/ FmReset \/ FmProcess

SpecFractal == InitFractal /\ [][NextFractal]_vars

(***************************************************************************)
(* A chaotic-oscillator stage driven on its own through its public         *)
(* methods, until a call panics                                            *)
(***************************************************************************)
InitChaos ==
    /\ InitPlugin
    /\ fractal_magic = FractalMagic_new(0)
    /\ \E a \in StageAmounts : chaos_attractor = ChaosAttractor_new(a)
    /\ stageOp = "new"
    /\ stageIn = 0
    /\ stageOut = 0

CaSetSampleRate ==
    \E sr \in StageRates :
        /\ stageOut # PANIC
        /\ chaos_attractor' = ChaosAttractor_set_sample_rate(chaos_attractor, sr)
        /\ stageOp' = "set_sample_rate"
        /\ UNCHANGED <<stageIn, stageOut, fractal_magic, pluginVars>>

CaReset ==
    /\ stageOut # PANIC
    /\ chaos_attractor' = ChaosAttractor_reset(chaos_attractor)
    /\ stageOp' = "reset"
    /\ UNCHANGED <<stageIn, stageOut, fractal_magic, pluginVars>>

CaProcess ==
    \E s \in ChaosSamples :
        /\ stageOut # PANIC
        /\ chaos_attractor.evolution_counter < MaxChaosRun
        /\ \E r \in {ChaosAttractor_process(chaos_attractor, s)} :
               /\ chaos_attractor' = r.self
               /\ stageOut' = r.out
        /\ stageIn' = s
        /\ stageOp' = "process"
        /\ UNCHANGED <<fractal_magic, pluginVars>>

NextChaos == CaSetSampleRate \/ CaReset \/ CaProcess

SpecChaos == InitChaos /\ [][NextChaos]_vars

(***************************************************************************)
(* A chaotic-oscillator stage in one long run: constructed, configured at  *)
(* most once before its first sample, fed the same sample call after call  *)
(* and reset in the end                                                    *)
(***************************************************************************)
\* a bypassed amount and two active ones
RunAmounts == {D(1, 1000), D(3, 10), S}
\* 1 Hz and 20 Hz
RunRates == {HZ, 20 * HZ}
RunSample == D(1, 1)

InitChaosRun ==
    /\ InitPlugin
    /\ fractal_magic = FractalMagic_new(0)
    /\ \E a \in RunAmounts : chaos_attractor = ChaosAttractor_new(a)
    /\ stageOp = "new"
    /\ stageIn = RunSample
    /\ stageOut = 0

CrSetSampleRate ==
    \E sr \in RunRates :
        /\ stageOp = "new"
        /\ chaos_attractor' = ChaosAttractor_set_sample_rate(chaos_attractor, sr)
        /\ stageOp' = "set_sample_rate"
        /\ UNCHANGED <<stageIn, stageOut, fractal_magic, peak_meter,
                       peak_meter_decay_weight, distortion, pc, host_rate, max_peak,
                       current_meter, new_meter, stores, loaded, framesLeft,
                       channels, frame, run, calls, since>>

\* the calls since the last recomputation, after one more call on self
SinceAfter(self, n) ==
    IF FLe(self.chaos_amount, D(1, 1000)) THEN n
    ELSE IF self.evolution_counter % EVOLVE_PERIOD = 0 THEN 1
    ELSE n + 1

CrProcess ==
    /\ stageOp # "reset"
    /\ stageOut # PANIC
    /\ calls < MaxCalls
    /\ \E r \in {ChaosAttractor_process(chaos_attractor, stageIn)} :
           /\ chaos_attractor' = r.self
           /\ stageOut' = r.out
    /\ stageOp' = "process"
    /\ calls' = calls + 1
    /\ since' = SinceAfter(chaos_attractor, since)
    /\ UNCHANGED <<stageIn, fractal_magic, peak_meter, peak_meter_decay_weight,
                   distortion, pc, host_rate, max_peak, current_meter, new_meter,
                   stores, loaded, framesLeft, channels, frame, run>>

\* reset, which ends the run
CrReset ==
    /\ stageOp = "process"
    /\ stageOut # PANIC
    /\ chaos_attractor' = ChaosAttractor_reset(chaos_attractor)
    /\ stageOp' = "reset"
    /\ since' = 0
    /\ UNCHANGED <<stageIn, stageOut, fractal_magic, peak_meter,
                   peak_meter_decay_weight, distortion, pc, host_rate, max_peak,
                   current_meter, new_meter, stores, loaded, framesLeft, channels,
                   frame, run, calls>>

NextChaosRun == CrSetSampleRate \/ CrProcess \/ CrReset

SpecChaosRun == InitChaosRun /\ [][NextChaosRun]_vars

(***************************************************************************)
(* The orchestrator and the peak meter, plugin.rs                          *)
(***************************************************************************)
HostRates == {44100 * HZ, 48000 * HZ}
Layouts == {1, 2}

\* the frames a host may hand over: the smoothed parameter values of the
\* frame and one input sample per channel
QuietFrames ==
    {[gain |-> g, drive |-> S, magic |-> 0, chaos |-> 0, samples |-> s] :
        g \in {S, 2 * S},
        s \in {<<0>>, <<0, 0>>, <<D(6, 10)>>, <<D(-10, 1), D(3, 10)>>}}

LoudFrames ==
    {[gain |-> g, drive |-> 2 * S, magic |-> D(5, 10), chaos |-> D(3, 10), samples |-> s] :
        g \in {S, D(5, 10)},
        s \in {<<0>>, <<S>>, <<0, 0>>, <<S, 0>>, <<S, S>>}}

MixedFrames ==
    {[gain |-> D(5, 10), drive |-> D(50, 1), magic |-> D(5, 10), chaos |-> 0,
      samples |-> <<S, D(-10, 1)>>],
     [gain |-> S, drive |-> S, magic |-> D(1, 1000), chaos |-> S, samples |-> <<D(3, 10)>>]}

FrameInputs == QuietFrames \cup LoudFrames \cup MixedFrames

\* the stage instances and the value of *sample after each stage
ChainResult(d, f, c, g) ==
    [fm |-> f.self, ca |-> c.self, stages |-> <<d, f.out, c.out, g>>, out |-> g]

\* mutant: a further smoothed gain value is taken for each later channel
ChainGain_resmoothed(gain, d, f, c) ==
    ChainResult(d, f, c,
        GainProcessor_process(c.out,
            IF f.self.sample_counter > 1 THEN FMul(gain, D(9, 10)) ELSE gain))

\* process line 280, c being what the chaotic oscillator returned
ChainGain(gain, d, f, c) == ChainResult(d, f, c, GainProcessor_process(c.out, gain))

\* process lines 279-280, f being what the chaotic iteration returned
ChainChaos(ca, gain, d, f) == ChainGain(gain, d, f, ChaosAttractor_process(ca, f.out))

\* process lines 278-280, d being what the waveshaper returned
ChainFractal(fm, ca, gain, d) == ChainChaos(ca, gain, d, FractalMagic_process(fm, d))

\* mutant: the two chaotic stages are applied in the opposite order
ChainSample_swapped(dist, fm, ca, gain, sample) ==
    LET d == Distortion_process(dist, sample)
        c == ChaosAttractor_process(ca, d)
        f == FractalMagic_process(fm, c.out)
        g == GainProcessor_process(f.out, gain)
    IN  [fm |-> f.self, ca |-> c.self, stages |-> <<d, f.out, c.out, g>>, out |-> g]

\* one sample through the four stages, process lines 277-280
ChainSample(dist, fm, ca, gain, sample) ==
    ChainFractal(fm, ca, gain, Distortion_process(dist, sample))

\* what the inner loop carries from channel to channel
Collect(acc, r) ==
    [fm |-> r.fm,
     ca |-> r.ca,
     stages |-> Append(acc.stages, r.stages),
     output |-> Append(acc.output, r.out)]

\* the inner loop over the channels of one frame, from channel i on
RECURSIVE RunChannels(_, _, _, _, _)
RunChannels(dist, gain, samples, i, acc) ==
    IF i > Len(samples) THEN acc
    ELSE RunChannels(dist, gain, samples, i + 1,
             Collect(acc, ChainSample(dist, acc.fm, acc.ca, gain, samples[i])))

\* one frame: the three stages are rebuilt from the frame's parameter values,
\* then every channel's sample goes through the chain
RunFrame(in) ==
    RunChannels(Distortion_new(in.drive), in.gain, in.samples, 1,
        [fm |-> FractalMagic_new(in.magic),
         ca |-> ChaosAttractor_new(in.chaos),
         stages |-> <<>>,
         output |-> <<>>])

\* RunFrame, evaluated once per frame input
FrameResult == [in \in FrameInputs |-> RunFrame(in)]

\* mutant: the sample is folded in with its sign
FoldSample_signed(peak, sample) == FMax(peak, sample)

\* max_peak.max(sample.abs())
FoldSample(peak, sample) == FMax(peak, FAbs(sample))

\* max_peak = max_peak.max(sample.abs()) over the outputs of a frame
RECURSIVE FoldPeak(_, _)
FoldPeak(peak, output) ==
    IF output = <<>> THEN peak
    ELSE FoldPeak(FoldSample(peak, Head(output)), Tail(output))

\* mutant: the decay branch blends the block peak in
NewMeter_blend(peak, current, weight) ==
    IF FGt(peak, current) THEN peak
    ELSE FAdd(FMul(current, weight), FMul(peak, FSub(S, weight)))

\* mutant: the decay branch holds the meter
NewMeter_hold(peak, current, weight) ==
    IF FGt(peak, current) THEN peak ELSE current

\* mutant: the block peak is always blended into the decaying meter
NewMeter_smoothed(peak, current, weight) ==
    FAdd(FMul(current, weight), FMul(peak, FSub(S, weight)))

\* the meter value stored at the end of a block
NewMeter(peak, current, weight) ==
    IF FGt(peak, current) THEN peak ELSE FMul(current, weight)

\* initialize: the buffer configuration, its sample rate included, is not read
Initialize ==
    \E sr \in HostRates :
    /\ pc \in {"created", "initialized", "idle"}
    /\ host_rate' = sr
    /\ peak_meter_decay_weight' = D(5, 10)
    /\ pc' = "initialized"
    /\ loaded' = <<>>
    /\ UNCHANGED <<peak_meter, distortion, fractal_magic, chaos_attractor, max_peak,
                   current_meter, new_meter, stores,
                   framesLeft, channels, frame, run, stageOp, stageIn, stageOut,
                   calls, since>>

\* process up to the loop: the sample rate is handed to both chaotic stages
ProcessBegin ==
    \E sr \in HostRates, n \in 0..MaxFrames, ch \in Layouts :
        /\ pc \in {"initialized", "idle"}
        /\ host_rate' = sr
        /\ fractal_magic' = FractalMagic_set_sample_rate(fractal_magic, sr)
        /\ chaos_attractor' = ChaosAttractor_set_sample_rate(chaos_attractor, sr)
        /\ max_peak' = 0
        /\ stores' = 0
        /\ framesLeft' = n
        /\ channels' = ch
        /\ frame' = NoFrame
        /\ pc' = "frame"
        /\ loaded' = <<>>
        /\ UNCHANGED <<peak_meter, peak_meter_decay_weight, distortion, run,
                       current_meter, new_meter, stageOp, stageIn, stageOut,
                   calls, since>>

\* one iteration of the loop over buffer.iter_samples()
ProcessFrame ==
    \E in \in FrameInputs :
        /\ pc = "frame"
        /\ framesLeft > 0
        /\ Len(in.samples) = channels
        /\ \E r \in {FrameResult[in]} :
               /\ distortion' = Distortion_new(in.drive)
               /\ fractal_magic' = r.fm
               /\ chaos_attractor' = r.ca
               /\ max_peak' = FoldPeak(max_peak, r.output)
               /\ frame' = [gain |-> in.gain, drive |-> in.drive, magic |-> in.magic,
                            chaos |-> in.chaos, input |-> in.samples,
                            stages |-> r.stages, output |-> r.output]
        /\ framesLeft' = framesLeft - 1
        /\ loaded' = <<>>
        /\ UNCHANGED <<peak_meter, peak_meter_decay_weight, pc, host_rate, channels, run,
                       current_meter, new_meter, stores, stageOp, stageIn, stageOut,
                   calls, since>>

\* mutant: the load returns the value the meter was constructed with
AtomicLoad_stale(held) == MINUS_INFINITY_DB

\* AtomicF32::load: the value returned
AtomicLoad(held) == held

\* mutant: the store writes the upper half of the value only
AtomicStore_torn(old, new) == ((new \div 65536) * 65536) + (old % 65536)

\* AtomicF32::store: the value held afterwards
AtomicStore(old, new) == new

\* the ghost run after a block of peak max_peak that found the meter at current
RunAfter(current) ==
    IF run = <<>> \/ max_peak # 0
    THEN <<max_peak, 0, FGt(max_peak, current)>>
    ELSE <<run[1], IF run[2] > MaxSilent THEN run[2] ELSE run[2] + 1, run[3]>>

\* process after the loop: the meter update
ProcessEnd ==
    /\ pc = "frame"
    /\ framesLeft = 0
    /\ \E nm \in {NewMeter(max_peak, AtomicLoad(peak_meter), peak_meter_decay_weight)} :
           /\ new_meter' = nm
           /\ peak_meter' = AtomicStore(peak_meter, nm)
    /\ run' = RunAfter(AtomicLoad(peak_meter))
    /\ stores' = stores + 1
    /\ pc' = "idle"
    /\ loaded' = <<>>
    /\ UNCHANGED <<peak_meter_decay_weight, distortion, fractal_magic, chaos_attractor,
                   host_rate, max_peak, current_meter, framesLeft, channels, frame,
                   stageOp, stageIn, stageOut,
                   calls, since>>

Init ==
    /\ InitPlugin
    /\ fractal_magic = FractalMagic_new(0)
    /\ chaos_attractor = ChaosAttractor_new(0)
    /\ stageOp = "new"
    /\ stageIn = 0
    /\ stageOut = 0

Next == Initialize \/ ProcessBegin \/ ProcessFrame \/ ProcessEnd

Spec == Init /\ [][Next]_vars

(***************************************************************************)
(* The orchestrator handed blocks of one frame, over the whole range of    *)
(* its parameters and over every kind of sample a buffer can hold          *)
(***************************************************************************)
\* -30 dB and +30 dB
WideGains == {D(316, 10000), D(316, 10)}
WideDrives == {S, D(50, 1)}
WideAmounts == {0, D(5, 10)}
WideRates == {48000 * HZ}
\* a NaN, an infinity and the largest finite magnitude, mono and stereo
WideSamples == {<<NaN>>, <<PInf>>, <<S, NaN>>, <<NInf, 0 - FMAX>>}

WideFrames ==
    {[gain |-> g, drive |-> d, magic |-> m, chaos |-> c, samples |-> s] :
        g \in WideGains, d \in WideDrives, m \in WideAmounts, c \in WideAmounts,
        s \in WideSamples}

\* RunFrame, evaluated once per frame input
WideResult == [in \in WideFrames |-> RunFrame(in)]

\* process on a block of one frame
ProcessWide ==
    \E sr \in WideRates, in \in WideFrames :
        /\ pc \in {"initialized", "idle"}
        /\ host_rate' = sr
        /\ \E r \in {WideResult[in]} :
               /\ distortion' = Distortion_new(in.drive)
               /\ fractal_magic' = r.fm
               /\ chaos_attractor' = r.ca
               /\ frame' = [gain |-> in.gain, drive |-> in.drive, magic |-> in.magic,
                            chaos |-> in.chaos, input |-> in.samples,
                            stages |-> r.stages, output |-> r.output]
               /\ \E p \in {FoldPeak(0, r.output)} :
                      /\ max_peak' = p
                      /\ \E nm \in {NewMeter(p, AtomicLoad(peak_meter),
                                             peak_meter_decay_weight)} :
                             /\ new_meter' = nm
                             /\ peak_meter' = AtomicStore(peak_meter, nm)
        /\ stores' = 1
        /\ framesLeft' = 0
        /\ channels' = Len(in.samples)
        /\ pc' = "idle"
        /\ UNCHANGED <<peak_meter_decay_weight, current_meter, loaded, run,
                       stageOp, stageIn, stageOut, calls, since>>

NextWide == Initialize \/ ProcessWide

SpecWide == Init /\ [][NextWide]_vars

\* a call of process that has begun goes on: the loop takes the next frame of
\* the buffer and, past the last one, the meter update runs
SpecRunning == Spec /\ WF_vars(ProcessFrame) /\ WF_vars(ProcessEnd)

(***************************************************************************)
(* The processing thread next to the editor, which shares the meter: the   *)
(* end of a block is taken at its two atomic operations                    *)
(***************************************************************************)
\* process line 290: the load of the meter
MeterLoad ==
    /\ pc = "frame"
    /\ framesLeft = 0
    /\ current_meter' = <<AtomicLoad(peak_meter)>>
    /\ pc' = "meter"
    /\ loaded' = <<>>
    /\ UNCHANGED <<peak_meter, peak_meter_decay_weight, distortion, fractal_magic,
                   chaos_attractor, host_rate, max_peak, new_meter, stores,
                   framesLeft, channels, frame, run, stageOp, stageIn, stageOut,
                   calls, since>>

\* process lines 295-303: new_meter is computed from the value loaded, then stored
MeterStore ==
    /\ pc = "meter"
    /\ \E nm \in {NewMeter(max_peak, current_meter[1], peak_meter_decay_weight)} :
           /\ new_meter' = nm
           /\ peak_meter' = AtomicStore(peak_meter, nm)
    /\ run' = RunAfter(current_meter[1])
    /\ stores' = stores + 1
    /\ current_meter' = <<>>
    /\ pc' = "idle"
    /\ loaded' = <<>>
    /\ UNCHANGED <<peak_meter_decay_weight, distortion, fractal_magic, chaos_attractor,
                   host_rate, max_peak, framesLeft, channels, frame,
                   stageOp, stageIn, stageOut,
                   calls, since>>

\* the editor's lens, editor.rs line 172: a load of the shared meter
EditorLoad ==
    /\ loaded' = <<AtomicLoad(peak_meter)>>
    /\ UNCHANGED <<peak_meter, peak_meter_decay_weight, distortion, fractal_magic,
                   chaos_attractor, pc, host_rate, max_peak, current_meter, new_meter,
                   stores, framesLeft, channels, frame, run, stageOp, stageIn, stageOut,
                   calls, since>>

NextEditor ==
    Initialize \/ ProcessBegin \/ ProcessFrame \/ MeterLoad \/ MeterStore \/ EditorLoad

SpecEditor == Init /\ [][NextEditor]_vars

(***************************************************************************)
(* Properties                                                              *)
(***************************************************************************)

\* a step of ProcessFrame / of ProcessEnd
FrameStep == pc = "frame" /\ pc' = "frame" /\ framesLeft' < framesLeft
MeterStep == pc = "frame" /\ pc' = "idle"

\* the stage instances that process channel i of a frame: rebuilt for the
\* frame, then carried from channel to channel
RECURSIVE FmAt(_, _)
FmAt(fr, i) ==
    IF i = 1 THEN FractalMagic_new(fr.magic)
    ELSE FractalMagic_process(FmAt(fr, i - 1), fr.stages[i - 1][1]).self

RECURSIVE CaAt(_, _)
CaAt(fr, i) ==
    IF i = 1 THEN ChaosAttractor_new(fr.chaos)
    ELSE ChaosAttractor_process(CaAt(fr, i - 1), fr.stages[i - 1][2]).self

FrameChained(fr) ==
    /\ Len(fr.stages) = Len(fr.input)
    /\ Len(fr.output) = Len(fr.input)
    /\ \A i \in 1..Len(fr.input) :
        /\ fr.stages[i][1] = Distortion_process(Distortion_new(fr.drive), fr.input[i])
        /\ fr.stages[i][2] = FractalMagic_process(FmAt(fr, i), fr.stages[i][1]).out
        /\ fr.stages[i][3] = ChaosAttractor_process(CaAt(fr, i), fr.stages[i][2]).out
        /\ fr.stages[i][4] = GainProcessor_process(fr.stages[i][3], fr.gain)
        /\ fr.output[i] = fr.stages[i][4]

\* the frames the orchestrator can produce that are chained stage by stage
ChainedFrames ==
    {fr \in {[gain |-> in.gain, drive |-> in.drive, magic |-> in.magic, chaos |-> in.chaos,
              input |-> in.samples, stages |-> FrameResult[in].stages,
              output |-> FrameResult[in].output] : in \in FrameInputs} : FrameChained(fr)}

\* C1: every sample of every frame goes through waveshaper, chaotic
\* iteration, chaotic oscillator and gain in that order, each stage fed the
\* previous stage's output; the gain stage's output is what is written back
\* and folded into the block peak.
C1_StageOrder ==
    [][FrameStep => /\ frame' \in ChainedFrames
                    /\ max_peak' = FoldPeak(max_peak, frame'.output)]_vars

C1_Witness ==
    /\ pc = "frame"
    /\ Len(frame.input) = 2
    /\ FGt(frame.magic, D(1, 1000))
    /\ FGt(frame.chaos, D(1, 1000))
    /\ frame.gain # S
    /\ frame.input[2] # frame.stages[2][1]
    /\ frame.stages[2][1] # frame.stages[2][2]
    /\ frame.stages[2][2] # frame.stages[2][3]
    /\ frame.stages[2][3] # frame.stages[2][4]
    /\ frame.output[2] = frame.stages[2][4]
    /\ max_peak = FMax(FAbs(frame.output[1]), FAbs(frame.output[2]))

\* C2: FractalMagic::process with magic_amount <= 0.001 returns its input
\* and leaves every field of the stage as it was.
C2_FractalBypass ==
    [][(stageOp' = "process" /\ FLe(fractal_magic.magic_amount, D(1, 1000)))
          => (fractal_magic' = fractal_magic /\ stageOut' = stageIn')]_vars

C2_Witness ==
    /\ stageOp = "process"
    /\ fractal_magic.magic_amount = D(1, 1000)
    /\ fractal_magic.sample_rate = 22050 * HZ
    /\ stageOut = D(10, 1)
    /\ fractal_magic.sample_counter = 0

\* C3: ChaosAttractor::process with chaos_amount <= 0.001 returns its input
\* and leaves every field of the stage as it was.
C3_ChaosBypass ==
    [][(stageOp' = "process" /\ FLe(chaos_attractor.chaos_amount, D(1, 1000)))
          => (chaos_attractor' = chaos_attractor /\ stageOut' = stageIn')]_vars

C3_Witness ==
    /\ stageOp = "process"
    /\ chaos_attractor.chaos_amount = D(1, 1000)
    /\ chaos_attractor.sample_rate = HZ
    /\ stageOut = D(10, 1)
    /\ chaos_attractor.phase = 0
    /\ chaos_attractor.evolution_counter = 0

\* C4: |z_real| <= 2.0 and |z_imag| <= 2.0 at every sample boundary of the
\* chaotic-iteration stage, for inputs in [-10, 10] and amounts in [0, 1].
C4_ZBounded ==
    /\ FLe(FAbs(fractal_magic.z_real), 2 * S)
    /\ FLe(FAbs(fractal_magic.z_imag), 2 * S)

\* C5: |x|, |y|, |z| <= 100 in every reachable state of the chaotic
\* oscillator, for any finite input sample.
C5_LorenzBounded ==
    /\ FLe(FAbs(chaos_attractor.x), D(100, 1))
    /\ FLe(FAbs(chaos_attractor.y), D(100, 1))
    /\ FLe(FAbs(chaos_attractor.z), D(100, 1))

\* C6: for inputs in [-10, 10] and an amount in (0.001, 1] every output of
\* the chaotic-iteration stage is finite and within [-1.5, 1.5].
C6_FractalOutputFinite ==
    (stageOp = "process" /\ FGt(fractal_magic.magic_amount, D(1, 1000)))
        => (IsFinite(stageOut) /\ FLe(FAbs(stageOut), D(15, 10)))

\* P * weight^N by repeated multiplication
RECURSIVE DecayN(_, _, _)
DecayN(p, weight, n) == IF n = 0 THEN p ELSE FMul(DecayN(p, weight, n - 1), weight)

\* C8 as stated: the meter becomes blockPeak when blockPeak exceeds it, and
\* max(blockPeak, currentMeter x decayWeight) otherwise.
C8_MaxOfPeakAndDecay ==
    [][MeterStep =>
          peak_meter' = IF FGt(max_peak, peak_meter) THEN max_peak
                        ELSE FMax(max_peak, FMul(peak_meter, peak_meter_decay_weight))]_vars

\* C8 amended: the meter becomes blockPeak when blockPeak exceeds it, and
\* currentMeter x decayWeight otherwise.
C8_JumpOrDecay ==
    [][MeterStep =>
          peak_meter' = IF FGt(max_peak, peak_meter) THEN max_peak
                        ELSE FMul(peak_meter, peak_meter_decay_weight)]_vars

C8_Witness ==
    /\ pc = "idle"
    /\ FGt(max_peak, 0)
    /\ FGt(peak_meter, 0)
    /\ FLt(peak_meter, max_peak)

\* C9: the peak meter is never negative, from construction onward.
C9_MeterNonNegative == FLe(0, peak_meter)

\* C10 as stated: after a block of peak P and N silent blocks the meter is
\* P x decayWeight^N, and it never rises from one silent block to the next.
C10_DecayAfterAnyBlock ==
    [][MeterStep =>
          /\ run'[2] <= MaxSilent =>
                 peak_meter' = DecayN(run'[1], peak_meter_decay_weight, run'[2])
          /\ run'[2] >= 1 => FLe(peak_meter', peak_meter)]_vars

\* C10 amended: the same, for a block of peak P that exceeded the meter value
\* it found.
C10_DecayAfterJump ==
    [][MeterStep =>
          /\ (run'[3] /\ run'[2] <= MaxSilent) =>
                 peak_meter' = DecayN(run'[1], peak_meter_decay_weight, run'[2])
          /\ run'[2] >= 1 => FLe(peak_meter', peak_meter)]_vars

C10_Witness ==
    /\ pc = "idle"
    /\ run # <<>>
    /\ run[3]
    /\ run[2] = 2
    /\ FGt(run[1], 0)
    /\ FGt(peak_meter, 0)
    /\ FLt(peak_meter, run[1])

\* a step of initialize
InitializeStep == pc' = "initialized"

\* C11: the decay weight set by initialize is derived from the sample rate of
\* the buffer configuration, so initialising again at another sample rate
\* gives another weight.
C11_WeightFollowsRate ==
    [][(InitializeStep /\ pc = "initialized" /\ host_rate' # host_rate)
          => peak_meter_decay_weight' # peak_meter_decay_weight]_vars

\* everything but what the editor's load returned
processVars == <<peak_meter, peak_meter_decay_weight, distortion, fractal_magic,
                 chaos_attractor, pc, host_rate, max_peak, current_meter, new_meter,
                 stores, framesLeft, channels, frame, run, stageOp, stageIn, stageOut,
                   calls, since>>

\* C12: whenever the editor loads the meter, under any interleaving with the
\* processing thread, it gets the meter's initial value or the value a block
\* stored whole at its end, never a partly written one, and its load changes
\* nothing the processing thread reads, so the processing thread is never held up.
C12_ReaderSeesWholeStores ==
    [][loaded' # <<>> =>
          /\ loaded' = <<IF run = <<>> THEN MINUS_INFINITY_DB ELSE new_meter>>
          /\ UNCHANGED processVars]_vars

\* the editor loads between the processing thread's load and its store of
\* another value, after an earlier block has stored
C12_Witness ==
    /\ loaded # <<>>
    /\ pc = "meter"
    /\ run # <<>>
    /\ loaded[1] = new_meter
    /\ NewMeter(max_peak, current_meter[1], peak_meter_decay_weight) # new_meter

\* C13: the meter is written by the processing thread alone, once per call
\* of process and after all of its samples; the editor only loads; and the
\* value a block's update starts from is the one the previous block stored,
\* or the initial one, so no update is lost between the load and the store.
C13_OneStorePerBlock ==
    [][/\ (peak_meter' # peak_meter \/ stores' > stores) => (pc = "meter" /\ pc' = "idle")
       /\ (pc = "meter" /\ pc' = "idle") =>
              /\ framesLeft = 0
              /\ stores = 0
              /\ stores' = 1
              /\ current_meter = <<peak_meter>>
              /\ peak_meter = (IF run = <<>> THEN MINUS_INFINITY_DB ELSE new_meter)
              /\ peak_meter' = NewMeter(max_peak, peak_meter, peak_meter_decay_weight)
       /\ pc' = "idle" => stores' = 1]_vars

\* a later block has stored, after its frames and after the editor's loads
C13_Witness ==
    /\ pc = "idle"
    /\ stores = 1
    /\ framesLeft = 0
    /\ frame # NoFrame
    /\ run # <<>>
    /\ run[2] >= 1
    /\ peak_meter = new_meter
    /\ peak_meter # MINUS_INFINITY_DB

\* C14: for a positive sample rate passed to set_sample_rate, an amount in
\* [0, 1] and a finite sample, process returns: it does not panic, and in
\* particular the remainder that wraps its counter has a non-zero divisor.
C14_ProcessReturns == stageOp = "process" => stageOut # PANIC

\* C15: FractalMagic::reset zeroes z_real, z_imag, sample_counter and
\* prev_output, leaves magic_amount, sample_rate and release_smoothing as
\* they were, and a second reset changes nothing.
C15_ResetZeroesIterate ==
    [][stageOp' = "reset" =>
          /\ fractal_magic'.z_real = 0
          /\ fractal_magic'.z_imag = 0
          /\ fractal_magic'.sample_counter = 0
          /\ fractal_magic'.prev_output = 0
          /\ fractal_magic'.magic_amount = fractal_magic.magic_amount
          /\ fractal_magic'.sample_rate = fractal_magic.sample_rate
          /\ fractal_magic'.release_smoothing = fractal_magic.release_smoothing
          /\ FractalMagic_reset(fractal_magic') = fractal_magic']_vars

\* a reset of an active stage that has processed at a sample rate of its own
C15_Witness ==
    /\ stageOp = "reset"
    /\ stageOut # 0
    /\ stageOut # stageIn
    /\ fractal_magic.magic_amount = D(3, 10)
    /\ fractal_magic.sample_rate = 22050 * HZ
    /\ fractal_magic.release_smoothing # D(9995, 10000)
    /\ fractal_magic.z_real = 0
    /\ fractal_magic.prev_output = 0

\* C16: while the samples of a block are processed, the chaotic-iteration
\* stage's sample_rate and release_smoothing and the chaotic oscillator's
\* sample_rate and dt are the values set_sample_rate derives from the sample
\* rate the host gave for that block.
C16_StagesAtHostRate ==
    (pc = "frame" /\ frame # NoFrame) =>
        /\ fractal_magic.sample_rate = host_rate
        /\ fractal_magic.release_smoothing =
               FractalMagic_set_sample_rate(fractal_magic, host_rate).release_smoothing
        /\ chaos_attractor.sample_rate = host_rate
        /\ chaos_attractor.dt =
               ChaosAttractor_set_sample_rate(chaos_attractor, host_rate).dt

\* a frame of zeros processed at drive 1, fractal amount 0, chaos amount 0, gain 1
SilentFrame(fr) ==
    /\ fr.input # <<>>
    /\ \A i \in 1..Len(fr.input) : fr.input[i] = 0
    /\ fr.drive = S
    /\ fr.magic = 0
    /\ fr.chaos = 0
    /\ fr.gain = S

\* C17: with drive 1, fractal amount 0, chaos amount 0 and gain 1, frames of
\* zeros come out as zeros, and a block of them never raises the peak meter
\* above the value it had before the block.
C17_SilenceKeepsFloor ==
    [][/\ (FrameStep /\ SilentFrame(frame')) =>
              \A i \in 1..Len(frame'.output) : frame'.output[i] = 0
       /\ (MeterStep /\ SilentFrame(frame) /\ max_peak = 0) =>
              FLe(peak_meter', peak_meter)]_vars

\* the frames of an impulse followed by zeros at drive 2, fractal amount 0.5,
\* chaos amount 0.3 and gain 1
ImpulseFrame ==
    [gain |-> S, drive |-> 2 * S, magic |-> D(5, 10), chaos |-> D(3, 10), samples |-> <<S>>]

ZeroFrame == [ImpulseFrame EXCEPT !.samples = <<0>>]

\* C18: in the first block a freshly constructed plugin processes, the block
\* peak covers the magnitude of every output sample and the meter stored at
\* the end of the block is at least the block peak; so for an impulse
\* followed by zeros the meter is at least the processed impulse.
C18_FirstBlockMeterCoversPeak ==
    [][/\ (FrameStep /\ run = <<>>) =>
              /\ FLe(max_peak, max_peak')
              /\ \A i \in 1..Len(frame'.output) : FLe(FAbs(frame'.output[i]), max_peak')
       /\ (MeterStep /\ run = <<>>) => FLe(max_peak, peak_meter')]_vars

\* the meter after a block of the impulse and then a zero
C18_Witness ==
    /\ pc = "idle"
    /\ run = <<max_peak, 0, TRUE>>
    /\ frame.input = ZeroFrame.samples
    /\ frame.output = FrameResult[ZeroFrame].output
    /\ frame.gain = S /\ frame.drive = 2 * S
    /\ max_peak = FAbs(FrameResult[ImpulseFrame].output[1])
    /\ FGt(max_peak, FAbs(frame.output[1]))
    /\ peak_meter = max_peak

\* C19: every sample the orchestrator hands to the two chaotic stages, on
\* every channel of every frame, is processed by stages in the state their
\* constructors leave them in.
C19_StagesFreshPerSample ==
    frame # NoFrame =>
        \A i \in 1..Len(frame.input) :
            /\ FmAt(frame, i) = FractalMagic_new(frame.magic)
            /\ CaAt(frame, i) = ChaosAttractor_new(frame.chaos)

\* C20: in every state of a ChaosAttractor, fresh from its constructor or
\* after any calls of set_sample_rate, reset and process, dt is
\* 0.005 * 44100 / sample_rate.
C20_DtFollowsSampleRate ==
    chaos_attractor.dt =
        FMul(D(5, 1000), ScaleDiv(44100 * HZ, chaos_attractor.sample_rate))

\* C21: after any calls of new, set_sample_rate, reset and process, a change
\* to a lower sample rate included, sample_counter is less than 60 times the
\* stage's current sample rate.
C21_CounterBelowMinute ==
    fractal_magic.sample_counter * HZ < 60 * fractal_magic.sample_rate

\* a non-bypassed call of process in a long run
ActiveCall ==
    /\ calls' = calls + 1
    /\ FGt(chaos_attractor.chaos_amount, D(1, 1000))

\* that call recomputes sigma, rho and beta
Recomputes == chaos_attractor.evolution_counter % EVOLVE_PERIOD = 0

\* C22: with an amount above 0.001, a call of process recomputes sigma, rho
\* and beta exactly when it is the first non-bypassed call after construction
\* or the 4000th since the last recomputation, the wrap of evolution_counter
\* at 600 times the sample rate included.
C22_RecomputeEvery4000 ==
    [][ActiveCall => (Recomputes <=> (since = 0 \/ since = EVOLVE_PERIOD))]_vars

\* C23: after construction, after reset and after every call of process, at
\* any positive sample rate, the phase accumulator lies between 0 and 1.
C23_PhaseInUnit ==
    /\ FLe(0, chaos_attractor.phase)
    /\ FLe(chaos_attractor.phase, S)

\* the magnitude of a finite sample
Magnitude(o) == IF o < 0 THEN 0 - o ELSE o

\* m is the largest of peak and the magnitudes of the samples of output
LargestOf(m, peak, output) ==
    /\ m >= peak
    /\ \A i \in 1..Len(output) : m >= Magnitude(output[i])
    /\ m = peak \/ \E i \in 1..Len(output) : m = Magnitude(output[i])

\* C24: the block peak starts at 0 with every block, whatever the block
\* before left, and with every frame becomes the largest of itself and the
\* magnitudes of the frame's output samples on all channels; that value, 0 for
\* a block without frames, is what the meter update compares with the meter.
C24_BlockPeakIsLargestMagnitude ==
    [][/\ pc' = "frame" /\ pc # "frame" => max_peak' = 0
       /\ FrameStep => LargestOf(max_peak', max_peak, frame'.output)
       /\ MeterStep => /\ max_peak' = max_peak
                       /\ new_meter' = NewMeter(max_peak, peak_meter,
                                                peak_meter_decay_weight)]_vars

\* the last frame of a second or later block: a negative sample is the
\* loudest of the block, and the block before was louder still
C24_Witness ==
    /\ pc = "frame"
    /\ framesLeft = 0
    /\ frame # NoFrame
    /\ \E i \in 1..Len(frame.output) :
           /\ frame.output[i] < 0
           /\ max_peak = 0 - frame.output[i]
    /\ peak_meter > max_peak

\* the frame fr was processed with its one value of each parameter on every
\* channel, and left the stages as that processing leaves them
OneParameterSet(fr, dist, fm, ca) ==
    /\ dist = Distortion_new(fr.drive)
    /\ fm.magic_amount = fr.magic
    /\ ca.chaos_amount = fr.chaos
    /\ fm = FractalMagic_process(FmAt(fr, Len(fr.input)), fr.stages[Len(fr.input)][1]).self
    /\ ca = ChaosAttractor_process(CaAt(fr, Len(fr.input)), fr.stages[Len(fr.input)][2]).self
    /\ \A i \in 1..Len(fr.input) :
        /\ fr.stages[i][1] = Distortion_process(dist, fr.input[i])
        /\ fr.stages[i][4] = GainProcessor_process(fr.stages[i][3], fr.gain)

\* the frames the orchestrator can produce, with the stages they leave, that
\* were processed with one parameter set
OneSetFrames ==
    {q \in {<<[gain |-> in.gain, drive |-> in.drive, magic |-> in.magic,
               chaos |-> in.chaos, input |-> in.samples,
               stages |-> FrameResult[in].stages, output |-> FrameResult[in].output],
              Distortion_new(in.drive), FrameResult[in].fm, FrameResult[in].ca>> :
                in \in FrameInputs} : OneParameterSet(q[1], q[2], q[3], q[4])}

\* C25: a frame is processed with one value of gain, drive, magic and chaos,
\* taken before its first sample and used for every channel, and the sample
\* rate the host gave is taken at the start of the block only: no frame and
\* no meter update changes it.
C25_OneParameterSetPerFrame ==
    [][/\ FrameStep => /\ <<frame', distortion', fractal_magic', chaos_attractor'>>
                              \in OneSetFrames
                       /\ host_rate' = host_rate
       /\ MeterStep => host_rate' = host_rate]_vars

\* a stereo frame with both chaotic stages active, a gain other than 1 and
\* sound on both channels, in a block at 48000 Hz
C25_Witness ==
    /\ pc = "frame"
    /\ host_rate = 48000 * HZ
    /\ Len(frame.input) = 2
    /\ FGt(frame.magic, D(1, 1000))
    /\ FGt(frame.chaos, D(1, 1000))
    /\ frame.gain # S
    /\ frame.output[1] # 0
    /\ frame.output[2] # 0

\* no stage call of the frame fr panicked
NoPanic(fr) ==
    \A i \in 1..Len(fr.stages) : \A k \in 1..4 : fr.stages[i][k] # PANIC

\* C26: a call of process on a block of finitely many frames and channels
\* runs to its end: every frame of the block is taken once and each of its
\* samples processed, no stage call panics, and the call performs its one
\* meter update and returns.
C26_ProcessRunsToCompletion ==
    /\ [][/\ FrameStep => /\ framesLeft' = framesLeft - 1
                          /\ Len(frame'.output) = channels
                          /\ NoPanic(frame')
          /\ MeterStep => framesLeft = 0 /\ stores' = 1]_vars
    /\ (pc = "frame") ~> (pc = "idle" /\ framesLeft = 0 /\ stores = 1)

\* the end of a block of two stereo frames with both chaotic stages active
C26_Witness ==
    /\ pc = "idle"
    /\ stores = 1
    /\ Len(frame.output) = 2
    /\ FGt(frame.magic, D(1, 1000))
    /\ FGt(frame.chaos, D(1, 1000))
    /\ run # <<>>
    /\ FGt(peak_meter, 0)

\* the frame input in has the parameter values of the frame fr and the
\* same sample as fr on channel i
SameOnChannel(in, fr, i) ==
    /\ in.gain = fr.gain
    /\ in.drive = fr.drive
    /\ in.magic = fr.magic
    /\ in.chaos = fr.chaos
    /\ Len(in.samples) = Len(fr.input)
    /\ in.samples[i] = fr.input[i]

\* C27: the output of a channel of a frame is the output that channel has in
\* every frame with the same parameter values and the same sample on that
\* channel, whatever the samples on the other channels.
C27_ChannelIndependence ==
    frame # NoFrame =>
        \A i \in 1..Len(frame.input) : \A in \in FrameInputs :
            SameOnChannel(in, frame, i) => FrameResult[in].output[i] = frame.output[i]

\* C28: on every channel of every frame the signal that enters the gain
\* stage has magnitude at most 1, whatever the input sample and whether the
\* chaotic stages are bypassed or not.
C28_UnitSignalBeforeGain ==
    frame # NoFrame =>
        \A i \in 1..Len(frame.stages) :
            /\ FLe(0 - S, frame.stages[i][3])
            /\ FLe(frame.stages[i][3], S)

\* C29: in the orchestrator, with mono and stereo layouts, sample_counter
\* and evolution_counter never exceed 2, and sigma, rho and beta always hold
\* 10, 28 and 8/3.
C29_CountersWithinChannels ==
    /\ fractal_magic.sample_counter <= 2
    /\ chaos_attractor.evolution_counter <= 2
    /\ chaos_attractor.evolution_counter < EVOLVE_PERIOD
    /\ chaos_attractor.sigma = D(10, 1)
    /\ chaos_attractor.rho = D(28, 1)
    /\ chaos_attractor.beta = FDiv(D(8, 1), D(3, 1))

\* after a stereo frame with both chaotic stages active
C29_Witness ==
    /\ pc = "frame"
    /\ Len(frame.input) = 2
    /\ FGt(fractal_magic.magic_amount, D(1, 1000))
    /\ FGt(chaos_attractor.chaos_amount, D(1, 1000))
    /\ fractal_magic.sample_counter = 2
    /\ chaos_attractor.evolution_counter = 2

\* a stage fresh from its constructor with the amount of self, then set to
\* the sample rate of self
FreshAs(self) ==
    ChaosAttractor_set_sample_rate(ChaosAttractor_new(self.chaos_amount),
                                   self.sample_rate)

\* C30: after reset, whatever calls of process came before, the stage gives
\* for the next input sample the output a stage gives that was just
\* constructed with the same amount and set to the same sample rate.
C30_ResetAsFresh ==
    stageOp = "reset" =>
        ChaosAttractor_process(chaos_attractor, RunSample).out
            = ChaosAttractor_process(FreshAs(chaos_attractor), RunSample).out

====
